---------------------------- MODULE Spec2Model ----------------------------
(***************************************************************************)
(* The two-finger pinch/pan gesture recognizer of druid/src/gesture.rs:    *)
(* DruidGestureRecognizer, its pointer tracker (pointers_track), its state *)
(* machine (Idle / TwoFingersIdle / PinchPanGesture) and the synthetic     *)
(* GesturePan / GestureZoom events process_event returns.                  *)
(*                                                                         *)
(* Numbers.  Coordinates are f64 in the source.  Pointer positions are     *)
(* drawn from point sets with even integer coordinates on which every      *)
(* pairwise distance is an integer, so that Point::distance and            *)
(* Point::midpoint are exact.  A zoom level is a quotient of two           *)
(* distances: it is kept as an exact fraction, or as the IEEE-754 result   *)
(* of a division by zero (x/0 = inf for x > 0, 0/0 = NaN).                 *)
(***************************************************************************)
EXTENDS Integers, Sequences, FiniteSets, TLC

VARIABLES
    state,            \* DruidGestureRecognizer.state
    pointers_track,   \* DruidGestureRecognizer.pointers_track
    grid,             \* which point set the pointer positions come from
    event,            \* the argument of the last process_event call
    pointers_changed, \* what update_pointers returned in that call
    gesture_events,   \* what that call returned
    prev_state,       \* self.state when that call began
    single_pointer,   \* no call so far has left more than one pointer tracked
    zoom_sum,         \* the sum of the Zoom deltas returned since the capture
    pan_sum           \* the sum of the Pan vectors returned since the capture

vars == <<state, pointers_track, grid, event, pointers_changed,
          gesture_events, prev_state, single_pointer, zoom_sum, pan_sum>>

---------------------------------------------------------------------------
(* Bounds and program constants *)

\* the longest per-pointer event queue the model lets the tracker build
MaxQueue == 3

\* const TWOFINGERS_MIN_PINCH_TRESHOLD: f64 = 20f64;
TWOFINGERS_MIN_PINCH_TRESHOLD == 20

\* const PINCH_ZOOM_GAIN: f64 = 1f64;
PINCH_ZOOM_GAIN == 1

\* PointerId values of the contacts the host may report
PointerIds == {"p1", "p2", "p3"}

Pt(x, y) == [x |-> x, y |-> y]

\* Two point sets; within each, all pairwise distances are integers.
\* GridA holds displacements below, at and above the threshold (18, 20, 34);
\* GridB is the line (0,0), (40,0), (80,0).
GridA == {Pt(16, 0), Pt(0, 12), Pt(0, 30)}
GridB == {Pt(0, 0), Pt(40, 0), Pt(80, 0)}
Points(gr) == IF gr = "A" THEN GridA ELSE GridB

---------------------------------------------------------------------------
(* kurbo geometry, as used by gesture.rs *)

Abs(n) == IF n < 0 THEN -n ELSE n

RECURSIVE SqrtFrom(_, _)
SqrtFrom(n, r) == IF r * r >= n THEN r ELSE SqrtFrom(n, r + 1)

\* Point::distance: the Euclidean distance (hypot of the difference); the
\* root is at least the larger of |dx| and |dy|, where the search starts
Distance(p, q) ==
    LET dx == Abs(p.x - q.x)
        dy == Abs(p.y - q.y)
    IN  SqrtFrom(dx * dx + dy * dy, IF dx > dy THEN dx ELSE dy)

\* Point::midpoint: (0.5 * (x0 + x1), 0.5 * (y0 + y1))
Midpoint(p, q) == Pt((p.x + q.x) \div 2, (p.y + q.y) \div 2)

\* Point::to_vec2: the vector with the point's coordinates
to_vec2(p) == [x |-> p.x, y |-> p.y]

\* Vec2 - Vec2
VecSub(v, w) == [x |-> v.x - w.x, y |-> v.y - w.y]

\* Vec2 + Vec2
VecAdd(v, w) == [x |-> v.x + w.x, y |-> v.y + w.y]

---------------------------------------------------------------------------
(* f64 values of the zoom computation *)

RECURSIVE GCD(_, _)
GCD(a, b) == IF b = 0 THEN a ELSE GCD(b, a % b)

\* the finite value n/d (d > 0), in lowest terms
Fin(n, d) ==
    LET g == GCD(Abs(n), d)
    IN  [k |-> "fin", n |-> n \div g, d |-> d \div g]

Inf(sign) == [k |-> "inf", n |-> sign, d |-> 0]
NaN == [k |-> "nan", n |-> 0, d |-> 0]

IsFinite(a) == a.k = "fin"

\* f64 / f64 for two distances (both >= 0)
FDiv(a, b) ==
    IF b = 0
    THEN IF a = 0 THEN NaN ELSE Inf(1)
    ELSE Fin(a, b)

\* f64 * f64 with an integral right operand
FMul(a, c) ==
    CASE a.k = "nan" -> NaN
      [] a.k = "inf" -> IF c = 0 THEN NaN
                        ELSE IF c > 0 THEN a ELSE Inf(-a.n)
      [] OTHER -> Fin(a.n * c, a.d)

\* f64 - f64
FSub(a, b) ==
    CASE a.k = "nan" \/ b.k = "nan" -> NaN
      [] a.k = "inf" /\ b.k = "inf" -> IF a.n = b.n THEN NaN ELSE a
      [] a.k = "inf" -> a
      [] b.k = "inf" -> Inf(-b.n)
      [] OTHER -> Fin(a.n * b.d - b.n * a.d, a.d * b.d)

\* f64 + f64
FAdd(a, b) ==
    CASE a.k = "nan" \/ b.k = "nan" -> NaN
      [] a.k = "inf" /\ b.k = "inf" -> IF a.n = b.n THEN a ELSE NaN
      [] a.k = "inf" -> a
      [] b.k = "inf" -> b
      [] OTHER -> Fin(a.n * b.d + b.n * a.d, a.d * b.d)

\* f64 == f64 (PartialEq: NaN equals nothing)
FEq(a, b) == a.k # "nan" /\ b.k # "nan" /\ a = b

Zero == Fin(0, 1)
One == Fin(1, 1)

---------------------------------------------------------------------------
(* Events *)

PointerTypes == {"PointerDown", "PointerUp", "PointerMove",
                 "PointerEnter", "PointerLeave"}

\* Event::PointerDown(PointerEvent { id, pos, .. }) and its siblings
PointerEv(type, id, pos) == [type |-> type, id |-> id, pos |-> pos]

\* any Event that is not one of the five pointer events
OtherEv == [type |-> "Other", id |-> "none", pos |-> Pt(0, 0)]

\* the value of `event` before the first call
NoEv == [type |-> "NoEvent", id |-> "none", pos |-> Pt(0, 0)]

\* Option<T>: None is the empty sequence, Some(v) the sequence <<v>>
None == << >>
Some(v) == <<v>>
unwrap(o) == o[1]

\* pointer_event_unchecked: the PointerEvent of a pointer event (it panics
\* on anything else: None here)
pointer_event_unchecked(evt) ==
    IF evt.type \in PointerTypes
    THEN Some([id |-> evt.id, pos |-> evt.pos])
    ELSE None

---------------------------------------------------------------------------
(* The tracker: HashMap<PointerId, VecDeque<Event>>.  The code pushes to   *)
(* the back of a queue and reads only its back, so a queue is kept as its  *)
(* length and its back element.  Every event the code queues is the        *)
(* PointerDown or PointerMove being processed, and all it reads of a       *)
(* queued event is pointer_event_unchecked(..).pos: a queued event is kept *)
(* as its PointerEvent.                                                    *)

EmptyMap == [i \in {} |-> 0]

\* VecDeque::new() followed by push_back(event.clone())
QueueOf(ev) == [len |-> 1, back |-> unwrap(pointer_event_unchecked(ev))]

\* VecDeque::push_back(event.clone())
push_back(q, ev) ==
    [len |-> q.len + 1, back |-> unwrap(pointer_event_unchecked(ev))]

\* HashMap::insert / HashMap::remove
MapInsert(m, id, q) == [i \in (DOMAIN m) \cup {id} |-> IF i = id THEN q ELSE m[i]]
MapRemove(m, id) == [i \in (DOMAIN m) \ {id} |-> m[i]]

\* the orders in which HashMap::iter may yield the entries of m
IterOrders(m) ==
    LET n == Cardinality(DOMAIN m)
    IN  {o \in [1..n -> DOMAIN m] : \A i, j \in 1..n : o[i] = o[j] => i = j}

---------------------------------------------------------------------------
(* The recognizer *)

Idle == [tag |-> "Idle"]
TwoFingersIdle(g) == [tag |-> "TwoFingersIdle", g |-> g]
PinchPanGesture(g) == [tag |-> "PinchPanGesture", g |-> g]

\* center, taking the captured positions instead of the current ones
center_Initial(g) == Midpoint(g.finger_one_pos, g.finger_two_pos)

\* TwoFingersGesture::center
center(g) == Midpoint(g.finger_one_pos_cur, g.finger_two_pos_cur)

\* compute_zoom_level
compute_zoom_level(finger_one_pos, finger_two_pos, gesture_state) ==
    LET initial_distance ==
            Distance(gesture_state.finger_one_pos, gesture_state.finger_two_pos)
        current_distance == Distance(finger_one_pos, finger_two_pos)
    IN  FMul(FDiv(current_distance, initial_distance), PINCH_ZOOM_GAIN)

\* get_current_twofinger_gesture, reading both positions from events[0]
get_current_twofinger_gesture_SamePos(track, events) ==
    LET finger_one_pos == track[events[1]].back.pos
        finger_two_pos == track[events[1]].back.pos
    IN  [finger_one_id |-> events[1],
         finger_two_id |-> events[2],
         finger_one_pos |-> finger_one_pos,
         finger_two_pos |-> finger_two_pos,
         finger_one_pos_cur |-> finger_one_pos,
         finger_two_pos_cur |-> finger_two_pos,
         zoom |-> One]

\* DruidGestureRecognizer::get_current_twofinger_gesture; `events` is the
\* order in which pointers_track.iter() yielded the tracked ids
get_current_twofinger_gesture(track, events) ==
    LET finger_one_pos ==
            track[events[1]].back.pos
        finger_two_pos ==
            track[events[2]].back.pos
    IN  [finger_one_id |-> events[1],
         finger_two_id |-> events[2],
         finger_one_pos |-> finger_one_pos,
         finger_two_pos |-> finger_two_pos,
         finger_one_pos_cur |-> finger_one_pos,
         finger_two_pos_cur |-> finger_two_pos,
         zoom |-> One]

\* DruidGestureRecognizer::pointer_pos
pointer_pos(track, id) ==
    IF id \in DOMAIN track
    THEN Some(track[id].back.pos)
    ELSE None

\* update_pointers, reporting a change for every PointerDown
update_pointers_DownAlwaysChanged(track, ev) ==
    CASE ev.type = "PointerDown" ->
            IF ev.id \in DOMAIN track
            THEN [track |-> [track EXCEPT ![ev.id] = push_back(@, ev)],
                  changed |-> TRUE]
            ELSE [track |-> MapInsert(track, ev.id, QueueOf(ev)),
                  changed |-> TRUE]
      [] ev.type = "PointerMove" ->
            IF ev.id \in DOMAIN track
            THEN [track |-> [track EXCEPT ![ev.id] = push_back(@, ev)],
                  changed |-> FALSE]
            ELSE [track |-> track, changed |-> FALSE]
      [] ev.type \in {"PointerUp", "PointerLeave"} ->
            [track |-> MapRemove(track, ev.id), changed |-> TRUE]
      [] OTHER -> [track |-> track, changed |-> FALSE]

\* update_pointers, starting to track the pointer of an unknown PointerMove
update_pointers_MoveInserts(track, ev) ==
    CASE ev.type = "PointerDown" ->
            IF ev.id \in DOMAIN track
            THEN [track |-> [track EXCEPT ![ev.id] = push_back(@, ev)],
                  changed |-> FALSE]
            ELSE [track |-> MapInsert(track, ev.id, QueueOf(ev)),
                  changed |-> TRUE]
      [] ev.type = "PointerMove" ->
            IF ev.id \in DOMAIN track
            THEN [track |-> [track EXCEPT ![ev.id] = push_back(@, ev)],
                  changed |-> FALSE]
            ELSE [track |-> MapInsert(track, ev.id, QueueOf(ev)),
                  changed |-> FALSE]
      [] ev.type \in {"PointerUp", "PointerLeave"} ->
            [track |-> MapRemove(track, ev.id), changed |-> TRUE]
      [] OTHER -> [track |-> track, changed |-> FALSE]

\* DruidGestureRecognizer::update_pointers: the tracker after the event and
\* the flag it returns
update_pointers(track, ev) ==
    CASE ev.type = "PointerDown" ->
            IF ev.id \in DOMAIN track
            THEN [track |-> [track EXCEPT ![ev.id] = push_back(@, ev)],
                  changed |-> FALSE]
            ELSE [track |-> MapInsert(track, ev.id, QueueOf(ev)),
                  changed |-> TRUE]
      [] ev.type = "PointerMove" ->
            IF ev.id \in DOMAIN track
            THEN [track |-> [track EXCEPT ![ev.id] = push_back(@, ev)],
                  changed |-> FALSE]
            ELSE [track |-> track, changed |-> FALSE]
      [] ev.type \in {"PointerUp", "PointerLeave"} ->
            [track |-> MapRemove(track, ev.id), changed |-> TRUE]
      [] OTHER -> [track |-> track, changed |-> FALSE]

\* the Idle arm, capturing as soon as one pointer is tracked
ArmIdle_AtOne(s, track) ==
    IF Cardinality(DOMAIN track) = 1
    THEN {TwoFingersIdle(get_current_twofinger_gesture(track, <<id, id>>)) :
              id \in DOMAIN track}
    ELSE {s}

\* process_event, the arm for GestureRecognizerState::Idle: the states it
\* may yield, one for each order pointers_track.iter() may take
ArmIdle(s, track) ==
    IF Cardinality(DOMAIN track) = 2
    THEN {TwoFingersIdle(get_current_twofinger_gesture(track, events)) :
              events \in IterOrders(track)}
    ELSE {s}

\* the TwoFingersIdle arm, resetting only when a finger was lost
ArmTwoFingersIdle_ResetOnLoss(s, track, changed) ==
    LET gesture_state == s.g IN
    IF changed /\ Cardinality(DOMAIN track) < 2
    THEN Idle
    ELSE LET finger_one_distance ==
                 Distance(gesture_state.finger_one_pos,
                          unwrap(pointer_pos(track, gesture_state.finger_one_id)))
             finger_two_distance ==
                 Distance(gesture_state.finger_two_pos,
                          unwrap(pointer_pos(track, gesture_state.finger_two_id)))
         IN  IF \/ Abs(finger_one_distance) > TWOFINGERS_MIN_PINCH_TRESHOLD
                \/ Abs(finger_two_distance) > TWOFINGERS_MIN_PINCH_TRESHOLD
             THEN PinchPanGesture(gesture_state)
             ELSE s

\* the TwoFingersIdle arm, refreshing the snapshot on the step that enters
\* PinchPanGesture
ArmTwoFingersIdle_EnterRefreshed(s, track, changed) ==
    LET gesture_state == s.g IN
    IF changed
    THEN Idle
    ELSE LET one == unwrap(pointer_pos(track, gesture_state.finger_one_id))
             two == unwrap(pointer_pos(track, gesture_state.finger_two_id))
         IN  IF \/ Abs(Distance(gesture_state.finger_one_pos, one))
                       > TWOFINGERS_MIN_PINCH_TRESHOLD
                \/ Abs(Distance(gesture_state.finger_two_pos, two))
                       > TWOFINGERS_MIN_PINCH_TRESHOLD
             THEN PinchPanGesture(
                      [gesture_state EXCEPT
                          !.zoom = compute_zoom_level(one, two, gesture_state),
                          !.finger_one_pos_cur = one,
                          !.finger_two_pos_cur = two])
             ELSE s

\* the TwoFingersIdle arm, measuring the displacement of finger one only
ArmTwoFingersIdle_OnlyFingerOne(s, track, changed) ==
    LET gesture_state == s.g IN
    IF changed
    THEN Idle
    ELSE LET finger_one_current_pos == pointer_pos(track, gesture_state.finger_one_id)
             finger_one_distance ==
                 Distance(gesture_state.finger_one_pos, unwrap(finger_one_current_pos))
         IN  IF Abs(finger_one_distance) > TWOFINGERS_MIN_PINCH_TRESHOLD
             THEN PinchPanGesture(gesture_state)
             ELSE s

\* process_event, the arm for GestureRecognizerState::TwoFingersIdle
ArmTwoFingersIdle(s, track, changed) ==
    LET gesture_state == s.g IN
    IF changed
    THEN Idle
    ELSE LET finger_one_current_pos == pointer_pos(track, gesture_state.finger_one_id)
             finger_two_current_pos == pointer_pos(track, gesture_state.finger_two_id)
             finger_one_distance ==
                 Distance(gesture_state.finger_one_pos, unwrap(finger_one_current_pos))
             finger_two_distance ==
                 Distance(gesture_state.finger_two_pos, unwrap(finger_two_current_pos))
         IN  IF \/ Abs(finger_one_distance) > TWOFINGERS_MIN_PINCH_TRESHOLD
                \/ Abs(finger_two_distance) > TWOFINGERS_MIN_PINCH_TRESHOLD
             THEN PinchPanGesture(gesture_state)
             ELSE s

\* the PinchPanGesture arm, resetting only when a finger was lost
ArmPinchPan_ResetOnLoss(s, track, changed) ==
    LET gesture_state == s.g IN
    IF changed /\ Cardinality(DOMAIN track) < 2
    THEN Idle
    ELSE LET one == unwrap(pointer_pos(track, gesture_state.finger_one_id))
             two == unwrap(pointer_pos(track, gesture_state.finger_two_id))
         IN  PinchPanGesture(
                 [gesture_state EXCEPT
                     !.zoom = compute_zoom_level(one, two, gesture_state),
                     !.finger_one_pos_cur = one,
                     !.finger_two_pos_cur = two])

\* the PinchPanGesture arm, overwriting the captured positions as well
ArmPinchPan_Recapture(s, track, changed) ==
    LET gesture_state == s.g IN
    IF changed
    THEN Idle
    ELSE LET one == unwrap(pointer_pos(track, gesture_state.finger_one_id))
             two == unwrap(pointer_pos(track, gesture_state.finger_two_id))
         IN  PinchPanGesture(
                 [gesture_state EXCEPT
                     !.zoom = compute_zoom_level(one, two, gesture_state),
                     !.finger_one_pos = one,
                     !.finger_two_pos = two,
                     !.finger_one_pos_cur = one,
                     !.finger_two_pos_cur = two])

\* process_event, the arm for GestureRecognizerState::PinchPanGesture
ArmPinchPan(s, track, changed) ==
    LET gesture_state == s.g IN
    IF changed
    THEN Idle
    ELSE LET finger_one_current_pos == pointer_pos(track, gesture_state.finger_one_id)
             finger_two_current_pos == pointer_pos(track, gesture_state.finger_two_id)
         IN  PinchPanGesture(
                 [gesture_state EXCEPT
                     !.zoom = compute_zoom_level(unwrap(finger_one_current_pos),
                                                 unwrap(finger_two_current_pos),
                                                 gesture_state),
                     !.finger_one_pos_cur = unwrap(finger_one_current_pos),
                     !.finger_two_pos_cur = unwrap(finger_two_current_pos)])

\* process_event: `let new_state = match &self.state { .. }`, the states
\* the match may yield
new_state(s, track, changed) ==
    CASE s.tag = "Idle" -> ArmIdle(s, track)
      [] s.tag = "TwoFingersIdle" -> {ArmTwoFingersIdle(s, track, changed)}
      [] s.tag = "PinchPanGesture" -> {ArmPinchPan(s, track, changed)}

GesturePan(v) == [type |-> "GesturePan", vec |-> v]
GestureZoom(z, c) == [type |-> "GestureZoom", zoom |-> z, center |-> c]

\* the events returned, emitting on the step that enters PinchPanGesture too
emitted_OnEntry(previous, next) ==
    IF previous.tag \in {"TwoFingersIdle", "PinchPanGesture"}
       /\ next.tag = "PinchPanGesture"
    THEN LET zoom_event == GestureZoom(FSub(next.g.zoom, previous.g.zoom),
                                       center(next.g))
             pan_event == GesturePan(VecSub(to_vec2(center(previous.g)),
                                            to_vec2(center(next.g))))
         IN  <<pan_event, zoom_event>>
    ELSE << >>

\* process_event: `match (&self.state, &new_state) { .. }`, the events returned
emitted(previous, next) ==
    IF previous.tag = "PinchPanGesture" /\ next.tag = "PinchPanGesture"
    THEN LET zoom_event == GestureZoom(FSub(next.g.zoom, previous.g.zoom),
                                       center(next.g))
             pan_event == GesturePan(VecSub(to_vec2(center(previous.g)),
                                            to_vec2(center(next.g))))
         IN  <<pan_event, zoom_event>>
    ELSE << >>

\* what an observer of the calls records: whether more than one pointer has
\* been tracked, and the deltas a consumer has accumulated for the gesture
Observe(previous, next, track, returned) ==
    /\ single_pointer' = (single_pointer /\ Cardinality(DOMAIN track) <= 1)
    /\ IF returned # << >>
       THEN /\ pan_sum' = VecAdd(pan_sum, returned[1].vec)
            /\ zoom_sum' = FAdd(zoom_sum, returned[2].zoom)
       ELSE IF previous.tag # "Idle" /\ next.tag # "Idle"
       THEN UNCHANGED <<pan_sum, zoom_sum>>
       ELSE /\ pan_sum' = [x |-> 0, y |-> 0]
            /\ zoom_sum' = Zero

\* GestureRecognizer::process_event
process_event(ev) ==
    LET up == update_pointers(pointers_track, ev) IN
    \E next \in new_state(state, up.track, up.changed) :
        /\ state' = next
        /\ pointers_track' = up.track
        /\ pointers_changed' = up.changed
        /\ gesture_events' = emitted(state, next)
        /\ event' = ev
        /\ prev_state' = state
        /\ Observe(state, next, up.track, emitted(state, next))
        /\ UNCHANGED grid

---------------------------------------------------------------------------
(* Specification *)

\* DruidGestureRecognizer::new, the recognizer fed positions of GridA
Init ==
    /\ state = Idle
    /\ pointers_track = EmptyMap
    /\ grid = "A"
    /\ event = NoEv
    /\ pointers_changed = FALSE
    /\ gesture_events = << >>
    /\ prev_state = Idle
    /\ single_pointer = TRUE
    /\ zoom_sum = Zero
    /\ pan_sum = [x |-> 0, y |-> 0]

\* a queue of id has room for one more event
Room(id) == id \in DOMAIN pointers_track => pointers_track[id].len < MaxQueue

PointerDown ==
    \E id \in PointerIds, pos \in Points(grid) :
        Room(id) /\ process_event(PointerEv("PointerDown", id, pos))

PointerMove ==
    \E id \in PointerIds, pos \in Points(grid) :
        Room(id) /\ process_event(PointerEv("PointerMove", id, pos))

PointerUp ==
    \E id \in PointerIds :
        /\ id \in PointerIds
        /\ process_event(PointerEv("PointerUp", id, Pt(0, 0)))

PointerLeave ==
    \E id \in PointerIds :
        /\ id \in PointerIds
        /\ process_event(PointerEv("PointerLeave", id, Pt(0, 0)))

PointerEnter ==
    \E id \in PointerIds :
        /\ id \in PointerIds
        /\ process_event(PointerEv("PointerEnter", id, Pt(0, 0)))

OtherEvent ==
    /\ OtherEv.type \notin PointerTypes
    /\ process_event(OtherEv)

Next ==
    \/ PointerDown
    \/ PointerMove
    \/ PointerUp
    \/ PointerLeave
    \/ PointerEnter
    \/ OtherEvent

Spec == Init /\ [][Next]_vars

\* the same recognizer fed positions of GridB
InitB ==
    /\ state = Idle
    /\ pointers_track = EmptyMap
    /\ grid = "B"
    /\ event = NoEv
    /\ pointers_changed = FALSE
    /\ gesture_events = << >>
    /\ prev_state = Idle
    /\ single_pointer = TRUE
    /\ zoom_sum = Zero
    /\ pan_sum = [x |-> 0, y |-> 0]

SpecB == InitB /\ [][Next]_vars

---------------------------------------------------------------------------
(* Properties *)

InGesture(s) == s.tag \in {"TwoFingersIdle", "PinchPanGesture"}
Tracked == DOMAIN pointers_track
IsRemoval(ev) == ev.type \in {"PointerUp", "PointerLeave"}

\* the latest tracked position of a pointer
Latest(track, id) == track[id].back.pos

\* C1. Membership reset: from TwoFingersIdle or PinchPanGesture, a
\* PointerDown for an untracked id (a third pointer) or a PointerUp /
\* PointerLeave for a tracked id leaves the recognizer in Idle, and
\* process_event returns no event for that step.
C1_MembershipReset ==
    [][ ( /\ InGesture(state)
          /\ \/ event'.type = "PointerDown" /\ event'.id \notin Tracked
             \/ IsRemoval(event') /\ event'.id \in Tracked )
        => (state' = Idle /\ gesture_events' = << >>) ]_vars

\* a third pointer went down during a pinch, and the gesture was dropped
C1_Witness ==
    /\ prev_state.tag = "PinchPanGesture"
    /\ event.type = "PointerDown"
    /\ Cardinality(Tracked) = 3
    /\ pointers_changed
    /\ state = Idle
    /\ gesture_events = << >>

\* C2. process_event returns nothing or exactly <<GesturePan, GestureZoom>>
\* in that order; it returns the two events only when the state before and
\* the state after the step are both PinchPanGesture (so never on a step
\* from Idle or TwoFingersIdle, nor on a step ending in Idle).
C2_EmissionShape ==
    /\ \/ gesture_events = << >>
       \/ /\ Len(gesture_events) = 2
          /\ gesture_events[1].type = "GesturePan"
          /\ gesture_events[2].type = "GestureZoom"
    /\ gesture_events # << >> =>
           prev_state.tag = "PinchPanGesture" /\ state.tag = "PinchPanGesture"

\* a step returned the two events
C2_Witness ==
    /\ Len(gesture_events) = 2
    /\ prev_state.tag = "PinchPanGesture"
    /\ state.tag = "PinchPanGesture"

\* C3. On every PinchPanGesture -> PinchPanGesture step the Pan vector is
\* midpoint(previous current positions) - midpoint(next current positions),
\* the Zoom delta is next.zoom - previous.zoom and the Zoom center is
\* midpoint(next current positions).
C3_EmittedValues ==
    (prev_state.tag = "PinchPanGesture" /\ state.tag = "PinchPanGesture") =>
        LET p == prev_state.g
            n == state.g
            center_prev == Midpoint(p.finger_one_pos_cur, p.finger_two_pos_cur)
            center_next == Midpoint(n.finger_one_pos_cur, n.finger_two_pos_cur)
        IN  /\ Len(gesture_events) = 2
            /\ gesture_events[1].vec =
                   [x |-> center_prev.x - center_next.x,
                    y |-> center_prev.y - center_next.y]
            /\ gesture_events[2].zoom = FSub(n.zoom, p.zoom)
            /\ gesture_events[2].center = center_next

\* a pinch step whose pan and zoom delta are both non-zero
C3_Witness ==
    /\ prev_state.tag = "PinchPanGesture"
    /\ state.tag = "PinchPanGesture"
    /\ Len(gesture_events) = 2
    /\ gesture_events[1].vec # [x |-> 0, y |-> 0]
    /\ IsFinite(gesture_events[2].zoom)
    /\ gesture_events[2].zoom # Zero

\* C4. Threshold: in TwoFingersIdle, on a step that leaves the set of
\* tracked ids as it was, the next state is PinchPanGesture if and only if
\* finger one's or finger two's latest position is more than 20 away from
\* its captured position; otherwise (both at most 20) the state is unchanged.
C4_Threshold ==
    [][ (state.tag = "TwoFingersIdle" /\ DOMAIN pointers_track' = Tracked) =>
          LET g == state.g
              d1 == Distance(g.finger_one_pos, Latest(pointers_track', g.finger_one_id))
              d2 == Distance(g.finger_two_pos, Latest(pointers_track', g.finger_two_id))
          IN  IF d1 > 20 \/ d2 > 20
              THEN state'.tag = "PinchPanGesture"
              ELSE state' = state ]_vars

\* C5. Capture: on every step from Idle to TwoFingersIdle the snapshot's two
\* finger ids are exactly the two tracked ids, each finger's initial and
\* current position equal that pointer's latest tracked position, and zoom
\* is 1.0.
C5_Capture ==
    (prev_state.tag = "Idle" /\ state.tag = "TwoFingersIdle") =>
        LET g == state.g
        IN  /\ Cardinality(Tracked) = 2
            /\ {g.finger_one_id, g.finger_two_id} = Tracked
            /\ g.finger_one_pos = Latest(pointers_track, g.finger_one_id)
            /\ g.finger_one_pos_cur = Latest(pointers_track, g.finger_one_id)
            /\ g.finger_two_pos = Latest(pointers_track, g.finger_two_id)
            /\ g.finger_two_pos_cur = Latest(pointers_track, g.finger_two_id)
            /\ g.zoom = One

\* a capture made when the third of three pointers was lifted, the two
\* remaining fingers being at different positions
C5_Witness ==
    /\ prev_state.tag = "Idle"
    /\ state.tag = "TwoFingersIdle"
    /\ IsRemoval(event)
    /\ state.g.finger_one_pos # state.g.finger_two_pos

\* C6. Degenerate capture: when the two fingers were captured at the same
\* position, the zoom in the state and the emitted Zoom delta are always
\* finite values.
C6_DegenerateZoomFinite ==
    (InGesture(state) /\ state.g.finger_one_pos = state.g.finger_two_pos) =>
        /\ IsFinite(state.g.zoom)
        /\ gesture_events # << >> => IsFinite(gesture_events[2].zoom)

\* C7. A PointerUp or PointerLeave for an untracked id reports no membership
\* change, leaves the tracker unchanged and does not reset a TwoFingersIdle
\* or PinchPanGesture state to Idle.
C7_UntrackedRemovalNoOp ==
    [][ (IsRemoval(event') /\ event'.id \notin Tracked) =>
          /\ pointers_changed' = FALSE
          /\ pointers_track' = pointers_track
          /\ InGesture(state) => state'.tag # "Idle" ]_vars

\* C8. An event that is not PointerDown, PointerMove, PointerUp or
\* PointerLeave leaves the tracker and the recognizer state (variant and
\* snapshot) as they were.
C8_OtherEventsChangeNothing ==
    [][ event'.type \in {"PointerEnter", "Other"} =>
          /\ pointers_track' = pointers_track
          /\ state' = state ]_vars

\* C9. The tracker stores at most one entry per tracked pointer, however
\* many PointerDown / PointerMove events that pointer has received.
C9_OneEntryPerPointer ==
    \A id \in Tracked : pointers_track[id].len <= 1

\* C10. Idempotence: when a PointerMove processed in PinchPanGesture is
\* processed a second time, the second call returns Pan = (0,0) and Zoom
\* delta = 0 and leaves the state equal to the state after the first call.
C10_RepeatedMove ==
    [][ ( /\ prev_state.tag = "PinchPanGesture"
          /\ event.type = "PointerMove"
          /\ event' = event )
        => /\ Len(gesture_events') = 2
           /\ gesture_events'[1].vec = [x |-> 0, y |-> 0]
           /\ FEq(gesture_events'[2].zoom, Zero)
           /\ state'.tag = state.tag
           /\ InGesture(state) =>
                  /\ [state'.g EXCEPT !.zoom = One] = [state.g EXCEPT !.zoom = One]
                  /\ FEq(state'.g.zoom, state.g.zoom) ]_vars

\* C11. First emission of a gesture: the step from TwoFingersIdle to
\* PinchPanGesture leaves the snapshot's current positions at the captured
\* positions and zoom at 1.0, and the PinchPanGesture step that follows it
\* emits Zoom delta = dist(current1,current2)/dist(initial1,initial2) - 1.0,
\* Zoom center = midpoint(current positions) and Pan = midpoint(initial
\* positions) - midpoint(current positions); captured at (0,0) and (40,0)
\* with the second finger moved to (80,0), that is delta 1.0, center (40,0)
\* and Pan (-20,0).
C11_FirstEmission ==
    [][ /\ (state.tag = "TwoFingersIdle" /\ state'.tag = "PinchPanGesture") =>
              /\ state'.g.finger_one_pos_cur = state.g.finger_one_pos
              /\ state'.g.finger_two_pos_cur = state.g.finger_two_pos
              /\ state'.g.zoom = One
        /\ ( /\ prev_state.tag = "TwoFingersIdle"
             /\ state.tag = "PinchPanGesture"
             /\ state'.tag = "PinchPanGesture" ) =>
              LET g == state'.g
                  mid_initial == Midpoint(g.finger_one_pos, g.finger_two_pos)
                  mid_current == Midpoint(g.finger_one_pos_cur, g.finger_two_pos_cur)
                  ratio == FDiv(Distance(g.finger_one_pos_cur, g.finger_two_pos_cur),
                                Distance(g.finger_one_pos, g.finger_two_pos))
              IN  /\ gesture_events' =
                         << GesturePan([x |-> mid_initial.x - mid_current.x,
                                        y |-> mid_initial.y - mid_current.y]),
                            GestureZoom(FSub(ratio, One), mid_current) >>
                  /\ ( /\ g.finger_one_pos = Pt(0, 0)
                       /\ g.finger_two_pos = Pt(40, 0)
                       /\ g.finger_one_pos_cur = Pt(0, 0)
                       /\ g.finger_two_pos_cur = Pt(80, 0) ) =>
                         gesture_events' =
                             << GesturePan([x |-> -20, y |-> 0]),
                                GestureZoom(One, Pt(40, 0)) >> ]_vars

\* the example: captured at (0,0) and (40,0), the second finger now at
\* (80,0), and the step emitted Pan (-20,0) and Zoom delta 1.0 at (40,0)
C11_Witness ==
    /\ prev_state.tag = "PinchPanGesture"
    /\ prev_state.g.zoom = One
    /\ prev_state.g.finger_one_pos_cur = Pt(0, 0)
    /\ prev_state.g.finger_two_pos_cur = Pt(40, 0)
    /\ state.tag = "PinchPanGesture"
    /\ state.g.finger_one_pos = Pt(0, 0)
    /\ state.g.finger_two_pos = Pt(40, 0)
    /\ state.g.finger_one_pos_cur = Pt(0, 0)
    /\ state.g.finger_two_pos_cur = Pt(80, 0)
    /\ gesture_events = << GesturePan([x |-> -20, y |-> 0]),
                           GestureZoom(One, Pt(40, 0)) >>

\* C12. A recognizer made by new() is Idle with an empty tracker, and as
\* long as no call has left more than one pointer tracked the state is Idle
\* after every call and no call has returned an event.
C12_SinglePointerStaysIdle ==
    /\ event = NoEv => (state = Idle /\ Tracked = {})
    /\ single_pointer => (state = Idle /\ gesture_events = << >>)

\* one pointer went down and moved twice, nothing else ever being tracked
C12_Witness ==
    /\ single_pointer
    /\ event.type = "PointerMove"
    /\ Tracked = {event.id}
    /\ pointers_track[event.id].len = 3
    /\ state = Idle
    /\ gesture_events = << >>

\* C13. From PinchPanGesture, on every step that leaves the set of tracked
\* ids as it was, the next state is PinchPanGesture whatever the fingers'
\* displacement, its current positions are the tracker's latest positions
\* of the two captured ids and its zoom is
\* dist(current1,current2) / dist(initial1,initial2) * 1.0.
C13_PinchPanPersists ==
    [][ (state.tag = "PinchPanGesture" /\ DOMAIN pointers_track' = Tracked) =>
          /\ state'.tag = "PinchPanGesture"
          /\ LET g == state'.g
             IN  /\ g.finger_one_pos_cur = Latest(pointers_track', g.finger_one_id)
                 /\ g.finger_two_pos_cur = Latest(pointers_track', g.finger_two_id)
                 /\ g.zoom =
                        FMul(FDiv(Distance(g.finger_one_pos_cur, g.finger_two_pos_cur),
                                  Distance(g.finger_one_pos, g.finger_two_pos)), 1) ]_vars

\* C14. Whenever the state is TwoFingersIdle or PinchPanGesture the tracker
\* holds exactly two ids, which are distinct and are the snapshot's
\* finger_one_id and finger_two_id; so in every call each tracked queue read
\* has a back element, pointer_pos finds both fingers in the gesture arms,
\* and a capture finds two entries to index.
C14_GestureIdsTracked ==
    [][ /\ InGesture(state') =>
              /\ Cardinality(DOMAIN pointers_track') = 2
              /\ state'.g.finger_one_id # state'.g.finger_two_id
              /\ DOMAIN pointers_track' =
                     {state'.g.finger_one_id, state'.g.finger_two_id}
        /\ \A id \in DOMAIN pointers_track' : pointers_track'[id].len >= 1
        /\ (InGesture(state) /\ ~pointers_changed') =>
              /\ pointer_pos(pointers_track', state.g.finger_one_id) # None
              /\ pointer_pos(pointers_track', state.g.finger_two_id) # None
        /\ (state.tag = "Idle" /\ Cardinality(DOMAIN pointers_track') = 2) =>
              \A events \in IterOrders(pointers_track') :
                  Len(events) = 2 /\ {events[1], events[2]} = DOMAIN pointers_track'
      ]_vars

\* a pinch step that read both fingers' positions from the tracker
C14_Witness ==
    /\ prev_state.tag = "PinchPanGesture"
    /\ state.tag = "PinchPanGesture"
    /\ ~pointers_changed
    /\ Tracked = {state.g.finger_one_id, state.g.finger_two_id}
    /\ state.g.finger_one_pos_cur = Latest(pointers_track, state.g.finger_one_id)
    /\ state.g.finger_two_pos_cur = Latest(pointers_track, state.g.finger_two_id)
    /\ state.g.finger_one_pos_cur # state.g.finger_one_pos

\* C15. Gesture identity is fixed for its lifetime: on every step from
\* TwoFingersIdle or PinchPanGesture to TwoFingersIdle or PinchPanGesture
\* the snapshot's two finger ids and two initial positions are unchanged; a
\* snapshot with other ids or initial positions appears only on a step whose
\* state before was Idle.
C15_IdentityFixed ==
    [][ /\ (InGesture(state) /\ InGesture(state')) =>
              /\ state'.g.finger_one_id = state.g.finger_one_id
              /\ state'.g.finger_two_id = state.g.finger_two_id
              /\ state'.g.finger_one_pos = state.g.finger_one_pos
              /\ state'.g.finger_two_pos = state.g.finger_two_pos
        /\ ( /\ InGesture(state')
             /\ \/ ~InGesture(state)
                \/ <<state'.g.finger_one_id, state'.g.finger_two_id,
                      state'.g.finger_one_pos, state'.g.finger_two_pos>>
                   # <<state.g.finger_one_id, state.g.finger_two_id,
                       state.g.finger_one_pos, state.g.finger_two_pos>> )
           => state = Idle ]_vars

\* a pinch step that moved both fingers away from where they were captured
C15_Witness ==
    /\ prev_state.tag = "PinchPanGesture"
    /\ state.tag = "PinchPanGesture"
    /\ state.g.finger_one_pos = prev_state.g.finger_one_pos
    /\ state.g.finger_two_pos = prev_state.g.finger_two_pos
    /\ state.g.finger_one_pos_cur # state.g.finger_one_pos
    /\ state.g.finger_two_pos_cur # state.g.finger_two_pos
    /\ state.g.finger_one_pos_cur # prev_state.g.finger_one_pos_cur

\* the state in which the capture named the two fingers the other way round
Swap(s) ==
    IF s.tag = "Idle"
    THEN s
    ELSE [s EXCEPT !.g = [finger_one_id |-> s.g.finger_two_id,
                          finger_two_id |-> s.g.finger_one_id,
                          finger_one_pos |-> s.g.finger_two_pos,
                          finger_two_pos |-> s.g.finger_one_pos,
                          finger_one_pos_cur |-> s.g.finger_two_pos_cur,
                          finger_two_pos_cur |-> s.g.finger_one_pos_cur,
                          zoom |-> s.g.zoom]]

\* C16. Finger-assignment symmetry: the run whose capture named the two
\* fingers the other way round goes, on the same event, to the state with
\* the fingers the other way round (from Idle, the capture in the other
\* iteration order), so it has the same state variant, and it returns the
\* same Pan vector, Zoom delta and Zoom center.
C16_FingerSymmetry ==
    [][ LET other == Swap(state')
            others == new_state(Swap(state), pointers_track', pointers_changed')
        IN  /\ other \in others
            /\ \A o \in others : o.tag = state'.tag
            /\ (state = Idle /\ InGesture(state')) => other # state'
            /\ emitted(Swap(state), other) = gesture_events' ]_vars

\* a pinch whose finger one is p2 and finger two is p1 returned a zoom
\* delta other than zero, while only its finger two had moved
C16_Witness ==
    /\ prev_state.tag = "PinchPanGesture"
    /\ state.tag = "PinchPanGesture"
    /\ state.g.finger_one_id = "p2"
    /\ state.g.finger_two_id = "p1"
    /\ state.g.finger_one_pos_cur = state.g.finger_one_pos
    /\ state.g.finger_two_pos_cur # state.g.finger_two_pos
    /\ Len(gesture_events) = 2
    /\ gesture_events[2].zoom # Zero

\* C17. A PointerDown for an id that is already tracked updates that
\* pointer's latest position, keeps the set of tracked ids and reports no
\* membership change, so it never resets TwoFingersIdle or PinchPanGesture
\* to Idle; a PointerDown for an untracked id inserts it with the event's
\* position and reports a membership change.
C17_PointerDown ==
    [][ event'.type = "PointerDown" =>
          IF event'.id \in Tracked
          THEN /\ DOMAIN pointers_track' = Tracked
               /\ Latest(pointers_track', event'.id) = event'.pos
               /\ \A id \in Tracked \ {event'.id} :
                      pointers_track'[id] = pointers_track[id]
               /\ ~pointers_changed'
               /\ InGesture(state) => InGesture(state')
          ELSE /\ DOMAIN pointers_track' = Tracked \cup {event'.id}
               /\ Latest(pointers_track', event'.id) = event'.pos
               /\ pointers_track'[event'.id].len = 1
               /\ \A id \in Tracked : pointers_track'[id] = pointers_track[id]
               /\ pointers_changed' ]_vars

\* a second PointerDown of a captured finger, far enough from where it was
\* captured, turned TwoFingersIdle into PinchPanGesture
C17_Witness ==
    /\ event.type = "PointerDown"
    /\ ~pointers_changed
    /\ prev_state.tag = "TwoFingersIdle"
    /\ state.tag = "PinchPanGesture"
    /\ event.id \in Tracked
    /\ pointers_track[event.id].len = 2
    /\ Latest(pointers_track, event.id) = event.pos

\* C18. A PointerMove for an id that is not tracked is discarded: the set
\* of tracked ids and every tracked pointer's latest position are unchanged
\* and no membership change is reported; a PointerMove for a tracked id
\* changes only that pointer's latest position, to the event's position.
C18_PointerMove ==
    [][ event'.type = "PointerMove" =>
          /\ DOMAIN pointers_track' = Tracked
          /\ ~pointers_changed'
          /\ \A id \in Tracked \ {event'.id} :
                 Latest(pointers_track', id) = Latest(pointers_track, id)
          /\ IF event'.id \in Tracked
             THEN Latest(pointers_track', event'.id) = event'.pos
             ELSE pointers_track' = pointers_track ]_vars

\* a PointerMove of a pointer that never went down arrived during a pinch
\* and left the pinch as it was
C18_Witness ==
    /\ event.type = "PointerMove"
    /\ event.id \notin Tracked
    /\ Cardinality(Tracked) = 2
    /\ ~pointers_changed
    /\ prev_state.tag = "PinchPanGesture"
    /\ state = prev_state
    /\ gesture_events # << >>

\* C19. Deltas telescope within a gesture: in every PinchPanGesture state
\* the sum of the Zoom deltas returned since the capture equals the current
\* zoom minus 1.0, and the sum of the Pan vectors returned since the
\* capture equals midpoint(initial positions) - midpoint(current positions).
C19_DeltasTelescope ==
    state.tag = "PinchPanGesture" =>
        /\ FEq(zoom_sum, FSub(state.g.zoom, One))
        /\ pan_sum = VecSub(to_vec2(Midpoint(state.g.finger_one_pos,
                                             state.g.finger_two_pos)),
                            to_vec2(center(state.g)))

\* C20. After every call, if the tracker holds exactly two pointers then
\* the state is TwoFingersIdle or PinchPanGesture.
C20_TwoTrackedInGesture ==
    Cardinality(Tracked) = 2 => InGesture(state)

=============================================================================
